---- MODULE Spec2Model ----
(***************************************************************************)
(* State-machine model of the voice-capture and draft-record pipeline of   *)
(* src/App.tsx (component App) and src/services/geminiService.ts.          *)
(*                                                                         *)
(* Text is a sequence of one-character strings.  A dictation session is    *)
(* one call of startListening or handleInlineVoiceStart; the recognizer    *)
(* object it creates, the closures it registers on it and the grace timer  *)
(* of stopListeningAndProcess are kept in one entry of `sess`.             *)
(***************************************************************************)
EXTENDS Integers, Sequences, FiniteSets, TLC

(* ------------------------------ bounds -------------------------------- *)
MaxSess == 2        \* dictation sessions started in one run
MaxEvents == 2      \* recognition result events delivered in one run
MaxEntries == 1     \* result entries carried by one event
MaxTime == 2        \* largest value Date.now() returns
MaxCalls == 2       \* asynchronous calls and reads started in one run
MaxChat == 2        \* length of the transcript up to which the comment on an
                    \* empty draft is added

(* ----------------------------- constants ------------------------------ *)
VoiceTopicLen == 10
SaveTopicLen == 12
MaxKeywords == 5

Ellipsis == <<".", ".", ".">>
Untitled == <<"U">>
LifeCategory == "life"
MsgNoSpeech == "speech input unsupported"
MsgKeywordCap == "at most 5 keywords"
MsgNoRecords == "no record yet"
BlankPaper == <<"blank paper">>
ImageOnlyContext == <<"[image]">>
CommentPrompt == <<"comment">>
NoReplyYet == <<"...">>
ChatError == <<"(Error)">>
PhotoTopic == <<"P">>
ImagePrompt == <<"describe">>
UnknownCreator == "unknown creator"
SeedBook == <<"Book">>
SeedMovie == <<"Movie">>
SeedMusic == <<"Music">>
FailedContent == <<"cannot analyze">>
FailedTopic == <<"failed">>
FailedKeyword == <<"error">>
OtherCategory == "other"

\* the ten-character dictation of the spec's scenario, one token per character
Dictation == <<"qu", "chao", "shi", "mai", "le", "ping", "guo", "he", "niu", "nai">>

\* transcripts a result entry can carry
Phrases == {<<" ">>, Dictation}

\* values the user can type into a text field
TypedTexts == {<<"x">>}

\* the picture the user picks, as a data URL
Images == {"img"}

\* mediaMeta of an analysis response: nullable, its title may be empty
MediaMetas ==
    {<<>>} \cup {<<[title |-> t, creator |-> "", genre |-> "g", region |-> "r"]>> :
                    t \in {<<>>, <<"T">>}}

\* responses of the model that satisfy analysisSchema (mediaMeta, which the
\* handler reads for a media result only, is left out of the others)
AnalysisResults ==
    {r \in [isMedia : BOOLEAN,
            detectedType : {"BOOK", "MOVIE", "MUSIC", "OTHER"},
            mediaMeta : MediaMetas,
            noteData : {[content |-> <<"n">>, topic |-> <<"t">>,
                         keywords |-> << <<"f">>, <<"a">> >>,
                         category |-> "work"]}] :
        ~r.isMedia => r.mediaMeta = <<>>}

\* a content longer than the topic taken from it
LongContent == Dictation \o <<"hao", "bu", "hao">>

\* values of the fields of a draft: 
\* none (<<>>), the falsy value, a proper value
DraftFieldValues ==
    [id : {<<>>, <<"">>, <<"7">>},
     timestamp : {<<>>, <<0>>, <<1>>},
     type : {<<>>, <<"BOOK">>},
     content : {<<>>, << <<>> >>, <<LongContent>>},
     topic : {<<>>, << <<>> >>, << <<"t">> >>},
     keywords : {<<>>, << <<>> >>, << << <<"a">> >> >>},
     category : {<<>>, <<"">>, <<"work">>}]

\* chat transcripts
Transcripts == {<<>>, <<[role |-> "user", text |-> <<"x">>, timestamp |-> 1]>>}

\* what the model can answer in the chat: a result without text, a text
ChatReplies == {<<>>, << <<"r">> >>}

\* keywords, one token each
KeywordTexts == {<<"a">>, <<"b">>, <<"c">>, <<"d">>, <<"e">>, <<"f">>}

\* values the user can type into the add-keyword input
KeywordInputs == KeywordTexts \cup {<<" ">>, <<" ", "a", " ">>}

\* keyword lists extractKeywords can return when the call succeeds
ExtractedKeywords == {<<>>, <<<<"f">>, <<"a">>, <<"f">>>>}

(* ------------------------------- state -------------------------------- *)
VARIABLES
    supported,            \* 'webkitSpeechRecognition' in window
    now,                  \* last value returned by Date.now()
    view,
    records,
    storage,              \* localStorage['muse_records']
    editingRecord,        \* <<>> is null, <<r>> a draft
    suggestedKeywords,
    chatMessages,
    chatInput,
    inputTextRef,
    fullTranscriptRef,
    isListening,
    isListeningRef,
    isInlineListening,
    inlineTargetRef,
    initialInlineTextRef,
    isProcessing,
    recognitionRef,       \* 0 is null, otherwise the session of the recognizer
    notice,               \* last alert() message
    sess,                 \* dictation sessions: recognizer, closures, timer
    nextSess,
    nEvents,
    keywordInput,         \* text of the add-keyword input
    isExtractingKeywords, \* an extractKeywords call is awaited
    isChatLoading,
    calls,                \* awaited calls (analyzeInput, generateChatReply)
                          \* and FileReader reads under way
    nCalls,
    did                   \* what the last step did (observation only)

vars == <<supported, now, view, records, storage, editingRecord,
          suggestedKeywords, chatMessages, chatInput, inputTextRef,
          fullTranscriptRef, isListening, isListeningRef, isInlineListening,
          inlineTargetRef, initialInlineTextRef, isProcessing, recognitionRef,
          notice, sess, nextSess, nEvents, keywordInput, isExtractingKeywords,
          isChatLoading, calls, nCalls, did>>

(* --------------------------- text helpers ----------------------------- *)
IsSpace(c) == c = " "

RECURSIVE TrimStart(_)
TrimStart(t) == IF t # <<>> /\ IsSpace(Head(t)) THEN TrimStart(Tail(t)) ELSE t

RECURSIVE TrimEnd(_)
TrimEnd(t) ==
    IF t # <<>> /\ IsSpace(t[Len(t)]) THEN TrimEnd(SubSeq(t, 1, Len(t) - 1)) ELSE t

\* String.prototype.trim
Trim(t) == TrimEnd(TrimStart(t))

\* String.prototype.slice(0, n)
Slice0(t, n) == IF Len(t) <= n THEN t ELSE SubSeq(t, 1, n)

(* --------------------------- recognition ------------------------------ *)
\* one entry of event.results: results[i].isFinal, results[i][0].transcript
Entries == [isFinal : BOOLEAN, transcript : Phrases]

\* the entries results[resultIndex .. results.length-1] of one result event
Events == UNION {[1..n -> Entries] : n \in 1..MaxEntries}

\* the loop of recognition.onresult: text of the final entries
RECURSIVE FinalOf(_, _)
FinalOf(results, i) ==
    IF i > Len(results) THEN <<>>
    ELSE (IF results[i].isFinal THEN results[i].transcript ELSE <<>>)
         \o FinalOf(results, i + 1)

\* the loop of recognition.onresult: text of the interim entries
RECURSIVE InterimOf(_, _)
InterimOf(results, i) ==
    IF i > Len(results) THEN <<>>
    ELSE (IF results[i].isFinal THEN <<>> ELSE results[i].transcript)
         \o InterimOf(results, i + 1)

\* if (final) inputTextRef.current += final
Accumulate(acc, final) == IF final # <<>> THEN acc \o final ELSE acc

\* onResult(inputTextRef.current + interim)
Combined(acc, interim) == acc \o interim

Sessions == 1..MaxSess

\* a session that has not been started
NoSession ==
    [kind |-> "none",          \* "primary" | "inline"
     target |-> "null",        \* closure variable `target` of the inline callbacks
     state |-> "unused",       \* recognizer: "absent" (null) | "active" |
                               \* "stopping" (stop() called) | "ended"
     closureIsInline |-> FALSE,\* isInlineListening as captured by the onEnd closure
     proc |-> "none",          \* "listening" | "grace" | "proofread" | "done"
     text |-> <<>>,            \* `text` of the grace timer callback
     \* what the recognizer of the session has delivered, kept until it ends
     finals |-> <<>>,          \* its final entries
     interim |-> <<>>,         \* the interim entries of its latest event
     prefix |-> <<>>,          \* target text when the inline session started
     \* what happened to the release of the session, kept until the timer fires
     held |-> FALSE,           \* at stop() the session had interim text only
     late |-> <<>>,            \* <<t>>: the latest event delivered between
                               \* stop() and the timer emitted transcript t
     stops |-> 0]              \* setTimeout calls made for its release

\* a session of which the code holds nothing any more: its recognizer has
\* ended (or never existed) and its release has been handled to the end
Finished == [NoSession EXCEPT !.state = "ended", !.proc = "done"]

Tidy(r) ==
    IF r.state \in {"absent", "ended"} /\ r.proc = "done" THEN Finished ELSE r

\* the effective transcript of the session's own recognizer
Own(r) == r.finals \o r.interim

\* observation of the last step
Quiet ==
    [op |-> "other",    \* "onresult" | "onend" | "timer" | "proofread"
     s |-> 0,           \* the session the step belongs to
     text |-> <<>>,     \* transcript passed to onResult, read by the timer,
                        \* or handed to proofreadText
     own |-> <<>>,      \* effective transcript of the session's own recognizer
     ok |-> FALSE,      \* the proofread call succeeded
     abrupt |-> FALSE,  \* onend without stop(), the session still held by the UI
     held |-> FALSE,    \* see NoSession
     late |-> <<>>,
     result |-> <<>>,   \* the value an awaited call has returned
     threw |-> FALSE]   \* the handler ended with an exception nobody caught

\* a step that is not observed
NoCall == did' = Quiet

(* ------------------------------ records ------------------------------- *)
NoDraft == <<>>

Draft(id, ts, content, topic) ==
    [id |-> id, timestamp |-> ts, type |-> "NOTE", content |-> content,
     topic |-> topic, keywords |-> <<>>, category |-> LifeCategory,
     chatHistory |-> <<>>]

\* the draft has the optional field f (a Partial<RecordData>)
Has(d, f) == f \in DOMAIN d

\* d.f || fallback for a string or number field: undefined, '' and 0 are falsy
OrElse(d, f, falsy, fallback) ==
    IF Has(d, f) /\ d[f] # falsy THEN d[f] ELSE fallback

\* d.f || fallback for an array field: only undefined is falsy
ArrayOrElse(d, f, fallback) == IF Has(d, f) THEN d[f] ELSE fallback

\* Date.now() read in a handler: the clock has not moved or has moved on
\* (the reads of one object literal fall in the same millisecond)
Times == {t \in {now, now + 1} : t <= MaxTime}

(* ------------------------------- Init --------------------------------- *)
Init ==
    /\ supported \in BOOLEAN
    /\ now = 1
    /\ view = "HOME"
    /\ records = <<>>
    /\ storage = <<>>
    /\ editingRecord = NoDraft
    /\ suggestedKeywords = <<>>
    /\ chatMessages = <<>>
    /\ chatInput = <<>>
    /\ inputTextRef = <<>>
    /\ fullTranscriptRef = <<>>
    /\ isListening = FALSE
    /\ isListeningRef = FALSE
    /\ isInlineListening = FALSE
    /\ inlineTargetRef = "null"
    /\ initialInlineTextRef = <<>>
    /\ isProcessing = FALSE
    /\ recognitionRef = 0
    /\ notice = ""
    /\ sess = [s \in Sessions |-> NoSession]
    /\ nextSess = 1
    /\ nEvents = 0
    /\ keywordInput = <<>>
    /\ isExtractingKeywords = FALSE
    /\ isChatLoading = FALSE
    /\ calls = <<>>
    /\ nCalls = 0
    /\ did = Quiet

(* ------------------------- UI reachability ---------------------------- *)
\* renderHome is mounted: the pen, mic and camera buttons exist
HomeMounted == view = "HOME"

\* renderEditRecord is mounted (it returns null without a draft)
EditMounted == view = "EDIT_RECORD" /\ editingRecord # NoDraft

\* the global processing loader covers the screen, so no new press or click
\* reaches a button; the release of a press already held and the keys typed
\* into the field that has the focus are still delivered
CanPress == ~isProcessing

(* --------------------------- voice logic ------------------------------ *)
\* startVoiceRecognition: state of the recognizer it returns (null: "absent")
StartedState == IF supported THEN "active" ELSE "absent"

\* recognitionRef.current = startVoiceRecognition(...)
StartedRef(s) == IF supported THEN s ELSE 0

\* alert() of startVoiceRecognition
StartedNotice == IF supported THEN notice ELSE MsgNoSpeech

\* recognition.stop()
StopRecognizer(ss, r) ==
    IF r # 0 /\ ss[r].state = "active" THEN [ss EXCEPT ![r].state = "stopping"] ELSE ss

StartListening ==
    /\ HomeMounted /\ CanPress
    /\ nextSess <= MaxSess
    /\ ~isListeningRef
    /\ inputTextRef' = <<>>
    /\ fullTranscriptRef' = <<>>
    /\ isListening' = TRUE
    /\ isListeningRef' = TRUE
    /\ recognitionRef' = StartedRef(nextSess)
    /\ notice' = StartedNotice
    /\ sess' = [sess EXCEPT ![nextSess] =
                   [NoSession EXCEPT !.kind = "primary", !.state = StartedState,
                                     !.proc = "listening"]]
    /\ nextSess' = nextSess + 1
    /\ NoCall
    /\ UNCHANGED <<supported, isChatLoading, now, view, records, storage, editingRecord,
                   suggestedKeywords, chatMessages, chatInput, isInlineListening,
                   inlineTargetRef, initialInlineTextRef, isProcessing, nEvents,
                   keywordInput, isExtractingKeywords,
                   calls, nCalls>>

\* the primary session whose release has not been handled yet
Listening(s) == sess[s].kind = "primary" /\ sess[s].proc = "listening"

\* variant of Lowered: the flag is lowered only when the call has succeeded
LoweredOnSuccess(ok) == ~ok

\* setIsProcessing(false) in the finally block of handleAnalyze and at the
\* end of the timer callback: the flag once the call is back, ok or not
Lowered(ok) == FALSE

\* the session a setTimeout call is made for: the one that is listening,
\* and the last press-to-talk session when none is
Released(s) ==
    IF \E r \in Sessions : Listening(r)
    THEN Listening(s)
    ELSE /\ sess[s].kind = "primary"
         /\ \A r \in Sessions : sess[r].kind = "primary" => r <= s

\* variant of NotListening: the gesture is never taken for a stray one
NotListeningNever(flag) == FALSE

\* if (!isListeningRef.current) return
NotListening(flag) == ~flag

\* stopListeningAndProcess up to setTimeout, on mouseup, mouseleave and
\* touchend of the mic button
StopListeningAndProcess ==
    /\ HomeMounted
    /\ IF NotListening(isListeningRef)
       THEN /\ did' = [Quiet EXCEPT !.op = "stop"]
            /\ UNCHANGED <<isListening, isListeningRef, recognitionRef, sess>>
       ELSE /\ isListening' = FALSE
            /\ isListeningRef' = FALSE
            /\ recognitionRef' = 0
            /\ sess' = [s \in Sessions |->
                          LET r == StopRecognizer(sess, recognitionRef)[s]
                          IN  IF Listening(s)
                              THEN [r EXCEPT !.proc = "grace",
                                             !.held = r.finals = <<>>
                                                      /\ Trim(r.interim) # <<>>,
                                             !.stops = @ + 1]
                              ELSE IF Released(s)
                              THEN [r EXCEPT !.stops = @ + 1]
                              ELSE r]
            /\ NoCall
    /\ UNCHANGED <<supported, isChatLoading, now, view, records, storage, editingRecord,
                   suggestedKeywords, chatMessages, chatInput, inputTextRef,
                   fullTranscriptRef, isInlineListening, inlineTargetRef,
                   initialInlineTextRef, isProcessing, notice, nextSess, nEvents,
                   keywordInput, isExtractingKeywords,
                   calls, nCalls>>

\* variant of IsBlank: the test without trim(), if (!text) return
IsBlankNoTrim(text) == text = <<>>

\* if (!text.trim()) return
IsBlank(text) == Trim(text) = <<>>

\* the setTimeout callback of stopListeningAndProcess up to the await
GraceTimer(s) ==
    /\ sess[s].proc = "grace"
    /\ LET text == fullTranscriptRef
           fired == [sess[s] EXCEPT !.held = FALSE, !.late = <<>>]
       IN  /\ IF IsBlank(text)
              THEN /\ sess' = [sess EXCEPT ![s] = Tidy([fired EXCEPT !.proc = "done"])]
                   /\ UNCHANGED isProcessing
              ELSE /\ sess' = [sess EXCEPT ![s] =
                                  [fired EXCEPT !.proc = "proofread", !.text = text]]
                   /\ isProcessing' = TRUE
           /\ did' = [Quiet EXCEPT !.op = "timer", !.s = s, !.text = text,
                                   !.own = Own(sess[s]), !.held = sess[s].held,
                                   !.late = sess[s].late]
    /\ UNCHANGED <<supported, isChatLoading, now, view, records, storage, editingRecord,
                   suggestedKeywords, chatMessages, chatInput, inputTextRef,
                   fullTranscriptRef, isListening, isListeningRef,
                   isInlineListening, inlineTargetRef, initialInlineTextRef,
                   recognitionRef, notice, nextSess, nEvents,
                   keywordInput, isExtractingKeywords,
                   calls, nCalls>>

\* what the model can answer to a proofread request: nothing, or the text
\* punctuated and padded with white space
Responses(text) == {<<>>, <<" ">> \o Trim(text) \o <<"!", " ">>}

\* variant of ProofreadText: the catch branch returns text.trim()
ProofreadTextTrimmed(text, ok, response) ==
    IF ok
    THEN IF Trim(response) # <<>> THEN Trim(response) ELSE text
    ELSE Trim(text)

\* proofreadText: response.text?.trim() || text, and text when the call throws
ProofreadText(text, ok, response) ==
    IF ok
    THEN IF Trim(response) # <<>> THEN Trim(response) ELSE text
    ELSE text

\* variant of VoiceTopic: the ellipsis appended whatever the length
VoiceTopicAlways(content) == Slice0(content, VoiceTopicLen) \o Ellipsis

\* finalContent.slice(0, 10) + (finalContent.length > 10 ? "..." : "")
VoiceTopic(content) ==
    Slice0(content, VoiceTopicLen)
    \o (IF Len(content) > VoiceTopicLen THEN Ellipsis ELSE <<>>)

\* the setTimeout callback of stopListeningAndProcess after the await
ProofreadDone(s, ok, response) ==
    /\ sess[s].proc = "proofread"
    /\ \E t \in Times :
         LET finalContent == ProofreadText(sess[s].text, ok, response)
         IN  /\ editingRecord' =
                   <<Draft(ToString(t), t, finalContent, VoiceTopic(finalContent))>>
             /\ now' = t
    /\ sess' = [sess EXCEPT ![s] = Tidy([sess[s] EXCEPT !.proc = "done", !.text = <<>>])]
    /\ did' = [Quiet EXCEPT !.op = "proofread", !.s = s, !.text = sess[s].text,
                            !.ok = ok]
    /\ chatMessages' = <<>>
    /\ suggestedKeywords' = <<>>
    /\ view' = "EDIT_RECORD"
    /\ fullTranscriptRef' = <<>>
    /\ isProcessing' = Lowered(ok)
    /\ UNCHANGED <<supported, isChatLoading, records, storage, chatInput, inputTextRef,
                   isListening, isListeningRef, isInlineListening,
                   inlineTargetRef, initialInlineTextRef, recognitionRef,
                   notice, nextSess, nEvents,
                   keywordInput, isExtractingKeywords,
                   calls, nCalls>>

\* handleInlineVoiceStart
HandleInlineVoiceStart(target) ==
    /\ EditMounted /\ CanPress
    /\ nextSess <= MaxSess
    /\ ~isInlineListening
    /\ LET captured == IF target = "EDIT_CONTENT" THEN editingRecord[1].content
                       ELSE chatInput
       IN  /\ initialInlineTextRef' = captured
           /\ sess' = [sess EXCEPT ![nextSess] =
                          [NoSession EXCEPT !.kind = "inline", !.target = target,
                                            !.state = StartedState,
                                            !.proc = "listening",
                                            !.closureIsInline = isInlineListening,
                                            !.prefix = captured]]
    /\ inputTextRef' = <<>>
    /\ inlineTargetRef' = target
    /\ isInlineListening' = TRUE
    /\ recognitionRef' = StartedRef(nextSess)
    /\ notice' = StartedNotice
    /\ nextSess' = nextSess + 1
    /\ NoCall
    /\ UNCHANGED <<supported, isChatLoading, now, view, records, storage, editingRecord,
                   suggestedKeywords, chatMessages, chatInput, fullTranscriptRef,
                   isListening, isListeningRef, isProcessing, nEvents,
                   keywordInput, isExtractingKeywords,
                   calls, nCalls>>

\* the inline session whose release has not been handled yet
InlineListening(s) == sess[s].kind = "inline" /\ sess[s].proc = "listening"

\* handleInlineVoiceEnd
HandleInlineVoiceEnd ==
    /\ EditMounted
    /\ isInlineListening
    /\ isInlineListening' = FALSE
    /\ inlineTargetRef' = "null"
    /\ sess' = [s \in Sessions |->
                  LET r == StopRecognizer(sess, recognitionRef)[s]
                  IN  IF InlineListening(s) THEN Tidy([r EXCEPT !.proc = "done"])
                      ELSE r]
    /\ recognitionRef' = 0
    /\ NoCall
    /\ UNCHANGED <<supported, isChatLoading, now, view, records, storage, editingRecord,
                   suggestedKeywords, chatMessages, chatInput, inputTextRef,
                   fullTranscriptRef, isListening, isListeningRef,
                   initialInlineTextRef, isProcessing, notice, nextSess, nEvents,
                   keywordInput, isExtractingKeywords,
                   calls, nCalls>>

\* setEditingRecord(prev => prev ? ({ ...prev, content: ... }) : null)
WithContent(prev, content) ==
    IF prev # NoDraft THEN <<[prev[1] EXCEPT !.content = content]>> ELSE NoDraft

\* recognition.onresult of the recognizer of session s, with the onResult
\* callback that session registered
OnResult(s, results) ==
    /\ sess[s].state \in {"active", "stopping"}
    /\ nEvents < MaxEvents
    /\ nEvents' = nEvents + 1
    /\ LET final == FinalOf(results, 1)
           interim == InterimOf(results, 1)
           acc == Accumulate(inputTextRef, final)
           text == Combined(acc, interim)
           value == initialInlineTextRef \o text
           hist == [sess[s] EXCEPT
                      !.finals = @ \o final,
                      !.interim = interim,
                      !.late = IF sess[s].proc = "grace" THEN <<text>> ELSE @]
       IN  /\ inputTextRef' = acc
           /\ did' = [Quiet EXCEPT !.op = "onresult", !.s = s, !.text = text,
                                   !.own = Own(hist)]
           /\ sess' = [sess EXCEPT ![s] = hist]
           /\ IF sess[s].kind = "primary"
              THEN /\ fullTranscriptRef' = text
                   /\ UNCHANGED <<editingRecord, chatInput>>
              ELSE /\ IF sess[s].target = "EDIT_CONTENT"
                      THEN /\ editingRecord' = WithContent(editingRecord, value)
                           /\ UNCHANGED chatInput
                      ELSE /\ chatInput' = value
                           /\ UNCHANGED editingRecord
                   /\ UNCHANGED fullTranscriptRef
    /\ UNCHANGED <<supported, isChatLoading, now, view, records, storage, suggestedKeywords,
                   chatMessages, isListening, isListeningRef, isInlineListening,
                   inlineTargetRef, initialInlineTextRef, isProcessing,
                   recognitionRef, notice, nextSess,
                   keywordInput, isExtractingKeywords,
                   calls, nCalls>>

\* recognition.onend of session s: the platform ends the recognizer, after
\* stop() or on its own, and runs the onEnd callback the session registered
OnEnd(s) ==
    /\ sess[s].state \in {"active", "stopping"}
    /\ sess' = [sess EXCEPT ![s] =
                   Tidy([sess[s] EXCEPT !.state = "ended", !.finals = <<>>,
                                        !.interim = <<>>, !.prefix = <<>>])]
    /\ did' = [Quiet EXCEPT !.op = "onend", !.s = s,
                            !.abrupt = sess[s].state = "active"
                                       /\ sess[s].proc = "listening"]
    /\ IF sess[s].kind = "inline" /\ sess[s].closureIsInline
       THEN /\ isInlineListening' = FALSE
            /\ inlineTargetRef' = "null"
       ELSE UNCHANGED <<isInlineListening, inlineTargetRef>>
    /\ UNCHANGED <<supported, isChatLoading, now, view, records, storage, editingRecord,
                   suggestedKeywords, chatMessages, chatInput, inputTextRef,
                   fullTranscriptRef, isListening, isListeningRef,
                   initialInlineTextRef, isProcessing, recognitionRef, notice,
                   nextSess, nEvents,
                   keywordInput, isExtractingKeywords,
                   calls, nCalls>>

(* ------------------------- capture and editing ------------------------ *)
\* handlePenClick
HandlePenClick ==
    /\ HomeMounted /\ CanPress
    /\ \E t \in Times :
         /\ editingRecord' = <<Draft(ToString(t), t, <<>>, <<>>)>>
         /\ now' = t
    /\ chatMessages' = <<>>
    /\ suggestedKeywords' = <<>>
    /\ view' = "EDIT_RECORD"
    /\ NoCall
    /\ UNCHANGED <<supported, isChatLoading, records, storage, chatInput, inputTextRef,
                   fullTranscriptRef, isListening, isListeningRef,
                   isInlineListening, inlineTargetRef, initialInlineTextRef,
                   isProcessing, recognitionRef, notice, sess, nextSess, nEvents,
                   keywordInput, isExtractingKeywords,
                   calls, nCalls>>

\* onChange of the content textarea
EditContent(value) ==
    /\ EditMounted
    /\ editingRecord' = <<[editingRecord[1] EXCEPT !.content = value]>>
    /\ NoCall
    /\ UNCHANGED <<supported, isChatLoading, now, view, records, storage, suggestedKeywords,
                   chatMessages, chatInput, inputTextRef, fullTranscriptRef,
                   isListening, isListeningRef, isInlineListening,
                   inlineTargetRef, initialInlineTextRef, isProcessing,
                   recognitionRef, notice, sess, nextSess, nEvents,
                   keywordInput, isExtractingKeywords,
                   calls, nCalls>>

\* onChange of the chat input
EditChatInput(value) ==
    /\ EditMounted
    /\ chatInput' = value
    /\ NoCall
    /\ UNCHANGED <<supported, isChatLoading, now, view, records, storage, editingRecord,
                   suggestedKeywords, chatMessages, inputTextRef,
                   fullTranscriptRef, isListening, isListeningRef,
                   isInlineListening, inlineTargetRef, initialInlineTextRef,
                   isProcessing, recognitionRef, notice, sess, nextSess, nEvents,
                   keywordInput, isExtractingKeywords,
                   calls, nCalls>>

\* onChange of the title input: the title of the work for a media record,
\* the topic otherwise
EditTitle(value) ==
    /\ EditMounted
    /\ LET d == editingRecord[1]
           isMedia == OrElse(d, "type", "", "") # "NOTE"
       IN  editingRecord' =
             IF isMedia
             THEN <<[mediaMeta |-> [title |-> value]
                                   @@ (IF Has(d, "mediaMeta") THEN d.mediaMeta
                                       ELSE [title |-> value])] @@ d>>
             ELSE <<[topic |-> value] @@ d>>
    /\ NoCall
    /\ UNCHANGED <<supported, isChatLoading, now, view, records, storage, suggestedKeywords,
                   chatMessages, chatInput, inputTextRef, fullTranscriptRef,
                   isListening, isListeningRef, isInlineListening,
                   inlineTargetRef, initialInlineTextRef, isProcessing,
                   recognitionRef, notice, sess, nextSess, nEvents,
                   keywordInput, isExtractingKeywords, calls, nCalls>>

\* handleFeelingLucky from the bottom bar; i is the index Math.random picks
\* (onSelectRecord of the list views makes the same assignments)
HandleFeelingLucky(i) ==
    /\ HomeMounted /\ CanPress /\ ~isListening
    /\ IF records = <<>>
       THEN /\ notice' = MsgNoRecords
            /\ UNCHANGED <<editingRecord, chatMessages, suggestedKeywords, view>>
       ELSE /\ i \in 1..Len(records)
            /\ editingRecord' = <<records[i]>>
            /\ chatMessages' = ArrayOrElse(records[i], "chatHistory", <<>>)
            /\ suggestedKeywords' = <<>>
            /\ view' = "EDIT_RECORD"
            /\ UNCHANGED notice
    /\ NoCall
    /\ UNCHANGED <<supported, isChatLoading, now, records, storage, chatInput, inputTextRef,
                   fullTranscriptRef, isListening, isListeningRef,
                   isInlineListening, inlineTargetRef, initialInlineTextRef,
                   isProcessing, recognitionRef, sess, nextSess, nEvents,
                   keywordInput, isExtractingKeywords, calls, nCalls>>

(* ------------------------------ keywords ------------------------------ *)
Range(q) == {q[i] : i \in 1..Len(q)}

\* q.filter(k => k !== kw)
Remove(q, kw) == SelectSeq(q, LAMBDA k : k # kw)

\* Array.from(new Set(q)): the first occurrence of every element, in order
RECURSIVE Dedup(_)
Dedup(q) ==
    IF q = <<>> THEN <<>>
    ELSE LET init == Dedup(SubSeq(q, 1, Len(q) - 1))
         IN  IF q[Len(q)] \in Range(init) THEN init ELSE Append(init, q[Len(q)])

\* { ...editingRecord, keywords: kws }
WithKeywords(d, kws) == [keywords |-> kws] @@ d

\* variant of AtCap: the cap tested one keyword too late
AtCapLate(current) == Len(current) > MaxKeywords

\* current.length >= 5
AtCap(current) == Len(current) >= MaxKeywords

\* text.includes(k)
Includes(text, k) ==
    \E i \in 1..(Len(text) + 1) :
        i + Len(k) - 1 <= Len(text) /\ SubSeq(text, i, i + Len(k) - 1) = k

\* currentKw, suggestionKw and historyKw of renderEditRecord (historyKw
\* before its slice(0, 8)): the keywords that have a button
KeywordButtons ==
    LET d == editingRecord[1]
        currentKw == ArrayOrElse(d, "keywords", <<>>)
        suggestionKw == SelectSeq(suggestedKeywords, LAMBDA k : k \notin Range(currentKw))
        allHistoryKw == UNION {Range(records[i].keywords) : i \in 1..Len(records)}
        textToSearch == OrElse(d, "topic", <<>>, <<>>) \o <<" ">>
                        \o OrElse(d, "content", <<>>, <<>>)
        historyKw == {k \in allHistoryKw :
                        /\ k \notin Range(currentKw) \cup Range(suggestionKw)
                        /\ Includes(textToSearch, k)}
    IN  Range(currentKw) \cup Range(suggestionKw) \cup historyKw

\* toggleKeyword, from a click on the button of keyword kw
ToggleKeyword(kw) ==
    /\ EditMounted /\ CanPress
    /\ kw \in KeywordButtons
    /\ LET current == ArrayOrElse(editingRecord[1], "keywords", <<>>)
       IN  IF kw \in Range(current)
           THEN /\ editingRecord' = <<WithKeywords(editingRecord[1], Remove(current, kw))>>
                /\ UNCHANGED notice
           ELSE IF AtCap(current)
           THEN /\ notice' = MsgKeywordCap
                /\ UNCHANGED editingRecord
           ELSE /\ editingRecord' = <<WithKeywords(editingRecord[1], Append(current, kw))>>
                /\ UNCHANGED notice
    /\ did' = [Quiet EXCEPT !.op = "toggle"]
    /\ UNCHANGED <<supported, isChatLoading, now, view, records, storage, suggestedKeywords,
                   chatMessages, chatInput, inputTextRef, fullTranscriptRef,
                   isListening, isListeningRef, isInlineListening,
                   inlineTargetRef, initialInlineTextRef, isProcessing,
                   recognitionRef, sess, nextSess, nEvents, keywordInput,
                   isExtractingKeywords, calls, nCalls>>

\* the user types value into the add-keyword input (onChange) and presses
\* Enter or the + button: handleAddKeyword
HandleAddKeyword(value) ==
    /\ EditMounted
    /\ LET newKw == Trim(value)
           currentKw == ArrayOrElse(editingRecord[1], "keywords", <<>>)
       IN  IF newKw = <<>>
           THEN /\ keywordInput' = value
                /\ UNCHANGED <<editingRecord, notice>>
           ELSE IF AtCap(currentKw) /\ newKw \notin Range(currentKw)
           THEN /\ notice' = MsgKeywordCap
                /\ keywordInput' = value
                /\ UNCHANGED editingRecord
           ELSE /\ editingRecord' =
                      IF newKw \notin Range(currentKw)
                      THEN <<WithKeywords(editingRecord[1], Append(currentKw, newKw))>>
                      ELSE editingRecord
                /\ keywordInput' = <<>>
                /\ UNCHANGED notice
    /\ did' = [Quiet EXCEPT !.op = "addkw"]
    /\ UNCHANGED <<supported, isChatLoading, now, view, records, storage, suggestedKeywords,
                   chatMessages, chatInput, inputTextRef, fullTranscriptRef,
                   isListening, isListeningRef, isInlineListening,
                   inlineTargetRef, initialInlineTextRef, isProcessing,
                   recognitionRef, sess, nextSess, nEvents,
                   isExtractingKeywords, calls, nCalls>>

\* handleAutoKeywords up to the await
HandleAutoKeywords ==
    /\ EditMounted /\ CanPress
    /\ ~isExtractingKeywords
    /\ OrElse(editingRecord[1], "content", <<>>, <<>>) # <<>>
    /\ isExtractingKeywords' = TRUE
    /\ NoCall
    /\ UNCHANGED <<supported, isChatLoading, now, view, records, storage, editingRecord,
                   suggestedKeywords, chatMessages, chatInput, inputTextRef,
                   fullTranscriptRef, isListening, isListeningRef,
                   isInlineListening, inlineTargetRef, initialInlineTextRef,
                   isProcessing, recognitionRef, notice, sess, nextSess,
                   nEvents, keywordInput, calls, nCalls>>

\* extractKeywords: the keywords of the response, [] when the call fails
ExtractKeywords(ok, response) == IF ok THEN response ELSE <<>>

\* handleAutoKeywords after the await
AutoKeywordsDone(ok, response) ==
    /\ isExtractingKeywords
    /\ suggestedKeywords' = Dedup(suggestedKeywords \o ExtractKeywords(ok, response))
    /\ isExtractingKeywords' = FALSE
    /\ NoCall
    /\ UNCHANGED <<supported, isChatLoading, now, view, records, storage, editingRecord,
                   chatMessages, chatInput, inputTextRef, fullTranscriptRef,
                   isListening, isListeningRef, isInlineListening,
                   inlineTargetRef, initialInlineTextRef, isProcessing,
                   recognitionRef, notice, sess, nextSess, nEvents,
                   keywordInput, calls, nCalls>>

(* ------------------------------ analysis ------------------------------ *)
\* the input file's onChange with a file picked: the FileReader starts
HandlePhoto(base64) ==
    /\ HomeMounted /\ CanPress
    /\ nCalls < MaxCalls
    /\ calls' = Append(calls, [kind |-> "read", image |-> base64])
    /\ nCalls' = nCalls + 1
    /\ NoCall
    /\ UNCHANGED <<supported, isChatLoading, now, view, records, storage, editingRecord,
                   suggestedKeywords, chatMessages, chatInput, inputTextRef,
                   fullTranscriptRef, isListening, isListeningRef,
                   isInlineListening, inlineTargetRef, initialInlineTextRef,
                   isProcessing, recognitionRef, notice, sess, nextSess,
                   nEvents, keywordInput, isExtractingKeywords>>

\* calls without its i-th entry
Settled(i) == SubSeq(calls, 1, i - 1) \o SubSeq(calls, i + 1, Len(calls))

\* onload of the FileReader
PhotoLoaded(i) ==
    /\ i \in 1..Len(calls)
    /\ calls[i].kind = "read"
    /\ \E t \in Times :
         /\ editingRecord' = <<[originalImage |-> calls[i].image]
                               @@ Draft(ToString(t), t, <<>>, PhotoTopic)>>
         /\ now' = t
    /\ chatMessages' = <<>>
    /\ suggestedKeywords' = <<>>
    /\ view' = "EDIT_RECORD"
    /\ calls' = Settled(i)
    /\ NoCall
    /\ UNCHANGED <<supported, isChatLoading, records, storage, chatInput, inputTextRef,
                   fullTranscriptRef, isListening, isListeningRef,
                   isInlineListening, inlineTargetRef, initialInlineTextRef,
                   isProcessing, recognitionRef, notice, sess, nextSess,
                   nEvents, keywordInput, isExtractingKeywords, nCalls>>

\* onChange of the date and time input
EditTimestamp(t) ==
    /\ EditMounted
    /\ editingRecord' = <<[timestamp |-> t] @@ editingRecord[1]>>
    /\ NoCall
    /\ UNCHANGED <<supported, isChatLoading, now, view, records, storage, suggestedKeywords,
                   chatMessages, chatInput, inputTextRef, fullTranscriptRef,
                   isListening, isListeningRef, isInlineListening,
                   inlineTargetRef, initialInlineTextRef, isProcessing,
                   recognitionRef, notice, sess, nextSess, nEvents,
                   keywordInput, isExtractingKeywords, calls, nCalls>>

\* handleAnalyze up to the await; the pending call keeps the draft of the
\* render the handler was created in
HandleAnalyze(text, imageBase64, isReAnalysis) ==
    /\ text # <<>> \/ imageBase64 # ""
    /\ nCalls < MaxCalls
    /\ isProcessing' = TRUE
    /\ calls' = Append(calls, [kind |-> "analyze", text |-> text,
                               image |-> imageBase64,
                               isReAnalysis |-> isReAnalysis,
                               editingRecord |-> editingRecord])
    /\ nCalls' = nCalls + 1
    /\ NoCall
    /\ UNCHANGED <<supported, isChatLoading, now, view, records, storage, editingRecord,
                   suggestedKeywords, chatMessages, chatInput, inputTextRef,
                   fullTranscriptRef, isListening, isListeningRef,
                   isInlineListening, inlineTargetRef, initialInlineTextRef,
                   recognitionRef, notice, sess, nextSess, nEvents,
                   keywordInput, isExtractingKeywords>>

\* editingRecord.originalImage || editingRecord.mediaMeta?.coverUrl
ShownImage(d) ==
    IF OrElse(d, "originalImage", "", "") # "" THEN d.originalImage
    ELSE IF Has(d, "mediaMeta") THEN d.mediaMeta.coverUrl
    ELSE ""

\* the re-analysis button over the picture
ReanalyzeImage ==
    /\ EditMounted /\ CanPress
    /\ ShownImage(editingRecord[1]) # ""
    /\ HandleAnalyze(ImagePrompt, ShownImage(editingRecord[1]), TRUE)

\* the re-analysis button under the content
ReanalyzeContent ==
    /\ EditMounted /\ CanPress
    /\ HandleAnalyze(OrElse(editingRecord[1], "content", <<>>, <<>>),
                     ShownImage(editingRecord[1]), TRUE)

\* handleAnalyze called for a first analysis of a capture
AnalyzeCapture(text, imageBase64) ==
    /\ CanPress
    /\ HandleAnalyze(text, imageBase64, FALSE)

\* variant of Fallback: the content is the text given, empty or not
FallbackOfText(text) ==
    [isMedia |-> FALSE, detectedType |-> "OTHER", mediaMeta |-> <<>>,
     noteData |-> [content |-> text,
                   topic |-> FailedTopic, keywords |-> <<FailedKeyword>>,
                   category |-> OtherCategory]]

\* the result analyzeInput returns on failure
Fallback(text) ==
    [isMedia |-> FALSE, detectedType |-> "OTHER", mediaMeta |-> <<>>,
     noteData |-> [content |-> IF text # <<>> THEN text ELSE FailedContent,
                   topic |-> FailedTopic, keywords |-> <<FailedKeyword>>,
                   category |-> OtherCategory]]

\* analyzeInput: the parsed response, the fallback when the call fails
AnalyzeInput(text, ok, response) == IF ok THEN response ELSE Fallback(text)

\* variant of NewRecordDraft: the detected type is taken whatever isMedia is
NewRecordDraftTyped(text, imageBase64, result, t) ==
    [type |-> result.detectedType,
     id |-> ToString(t), timestamp |-> t, content |-> result.noteData.content,
     topic |-> result.noteData.topic, keywords |-> <<>>,
     category |-> result.noteData.category, chatHistory |-> <<>>]

\* variant of InitialKeywords: no seed keyword
InitialKeywordsNone(detectedType) == <<>>

\* initialKeywords of handleAnalyze
InitialKeywords(detectedType) ==
    (IF detectedType = "BOOK" THEN <<SeedBook>> ELSE <<>>)
    \o (IF detectedType = "MOVIE" THEN <<SeedMovie>> ELSE <<>>)
    \o (IF detectedType = "MUSIC" THEN <<SeedMusic>> ELSE <<>>)

\* result.isMedia ? (result.mediaMeta?.title || result.noteData.topic)
\*                : result.noteData.topic
Title(result) ==
    IF result.isMedia /\ result.mediaMeta # <<>> /\ result.mediaMeta[1].title # <<>>
    THEN result.mediaMeta[1].title
    ELSE result.noteData.topic

\* the re-analysis branch: the draft of the closure with the result merged in
Reanalyzed(d, result) ==
    [topic |-> Title(result),
     content |-> result.noteData.content,
     category |-> result.noteData.category,
     keywords |-> ArrayOrElse(d, "keywords", <<>>)
                  \o InitialKeywords(result.detectedType)] @@ d

\* newRecordDraft of handleAnalyze; t is Date.now()
NewRecordDraft(text, imageBase64, result, t) ==
    LET isImageInit == imageBase64 # "" /\ text = <<>>
        base == [id |-> ToString(t), timestamp |-> t,
                 type |-> IF result.isMedia THEN result.detectedType ELSE "NOTE",
                 content |-> IF isImageInit THEN <<>> ELSE result.noteData.content,
                 topic |-> Title(result),
                 keywords |-> InitialKeywords(result.detectedType),
                 category |-> result.noteData.category,
                 chatHistory |-> <<>>]
        meta == [title |-> Title(result),
                 creator |-> IF result.mediaMeta # <<>> /\ result.mediaMeta[1].creator # ""
                             THEN result.mediaMeta[1].creator ELSE UnknownCreator,
                 genre |-> IF result.mediaMeta # <<>> THEN result.mediaMeta[1].genre ELSE "",
                 coverUrl |-> imageBase64,
                 year |-> IF result.mediaMeta # <<>> THEN result.mediaMeta[1].region ELSE ""]
    IN  IF result.isMedia THEN [mediaMeta |-> meta] @@ base
        ELSE IF imageBase64 # "" THEN [originalImage |-> imageBase64] @@ base
        ELSE base

\* handleAnalyze after the await
AnalyzeDone(i, ok, response) ==
    /\ i \in 1..Len(calls)
    /\ calls[i].kind = "analyze"
    /\ LET c == calls[i]
           result == AnalyzeInput(c.text, ok, response)
       IN  /\ IF c.isReAnalysis /\ c.editingRecord # NoDraft
              THEN /\ editingRecord' = <<Reanalyzed(c.editingRecord[1], result)>>
                   /\ did' = [Quiet EXCEPT !.op = "merge", !.s = i, !.ok = ok,
                                              !.result = <<result>>]
                   /\ UNCHANGED <<now, chatMessages, view>>
              ELSE /\ \E t \in Times :
                        /\ editingRecord' = <<NewRecordDraft(c.text, c.image, result, t)>>
                        /\ now' = t
                   /\ chatMessages' = <<>>
                   /\ view' = "EDIT_RECORD"
                   /\ did' = [Quiet EXCEPT !.op = "initial", !.s = i, !.ok = ok,
                                              !.result = <<result>>]
           /\ suggestedKeywords' = result.noteData.keywords
    /\ isProcessing' = Lowered(ok)
    /\ calls' = Settled(i)
    /\ UNCHANGED <<supported, isChatLoading, records, storage, chatInput, inputTextRef,
                   fullTranscriptRef, isListening, isListeningRef,
                   isInlineListening, inlineTargetRef, initialInlineTextRef,
                   recognitionRef, notice, sess, nextSess, nEvents,
                   keywordInput, isExtractingKeywords, nCalls>>

(* -------------------------------- chat -------------------------------- *)
\* variant of GenerateChatReply: nothing is returned when the call throws
GenerateChatReplySilent(ok, response) == IF ok THEN response ELSE <<>>

\* generateChatReply: result.text (<<>> is undefined), the sentinel when
\* the call throws
GenerateChatReply(ok, response) == IF ok THEN response ELSE <<ChatError>>

\* reply ?? fallback
OrIfNullish(reply, fallback) == IF reply = <<>> THEN fallback ELSE reply[1]

Message(role, text, t) == [role |-> role, text |-> text, timestamp |-> t]

\* triggerXylaAnalysis up to the await
TriggerXylaAnalysis ==
    /\ EditMounted /\ CanPress
    /\ LET d == editingRecord[1]
           hasContent == Trim(OrElse(d, "content", <<>>, <<>>)) # <<>>
           hasImage == ShownImage(d) # ""
       IN  IF ~hasContent /\ ~hasImage
           THEN /\ Len(chatMessages) < MaxChat
                /\ \E t \in Times :
                     /\ chatMessages' = Append(chatMessages,
                                               Message("model", BlankPaper, t))
                     /\ now' = t
                /\ UNCHANGED <<isChatLoading, calls, nCalls>>
           ELSE /\ nCalls < MaxCalls
                /\ isChatLoading' = TRUE
                /\ calls' = Append(calls, [kind |-> "chat", from |-> "comment",
                                           context |-> IF OrElse(d, "content", <<>>, <<>>) # <<>>
                                                       THEN d.content ELSE ImageOnlyContext,
                                           message |-> CommentPrompt,
                                           fallback |-> NoReplyYet,
                                           editingRecord |-> editingRecord])
                /\ nCalls' = nCalls + 1
                /\ UNCHANGED <<chatMessages, now>>
    /\ NoCall
    /\ UNCHANGED <<supported, view, records, storage, editingRecord,
                   suggestedKeywords, chatInput, inputTextRef,
                   fullTranscriptRef, isListening, isListeningRef,
                   isInlineListening, inlineTargetRef, initialInlineTextRef,
                   isProcessing, recognitionRef, notice, sess, nextSess,
                   nEvents, keywordInput, isExtractingKeywords>>

\* handleChatSend up to the await, from Enter in the chat input or the button
HandleChatSend ==
    /\ EditMounted
    /\ Trim(chatInput) # <<>> /\ ~isChatLoading
    /\ nCalls < MaxCalls
    /\ \E t \in Times :
         /\ chatMessages' = Append(chatMessages, Message("user", chatInput, t))
         /\ now' = t
    /\ chatInput' = <<>>
    /\ isChatLoading' = TRUE
    /\ calls' = Append(calls, [kind |-> "chat", from |-> "send",
                               context |-> OrElse(editingRecord[1], "content", <<>>,
                                                  IF OrElse(editingRecord[1], "originalImage", "", "") # ""
                                                  THEN ImageOnlyContext ELSE <<>>),
                               message |-> chatInput,
                               fallback |-> <<>>,
                               editingRecord |-> editingRecord])
    /\ nCalls' = nCalls + 1
    /\ NoCall
    /\ UNCHANGED <<supported, view, records, storage, editingRecord,
                   suggestedKeywords, inputTextRef,
                   fullTranscriptRef, isListening, isListeningRef,
                   isInlineListening, inlineTargetRef, initialInlineTextRef,
                   isProcessing, recognitionRef, notice, sess, nextSess,
                   nEvents, keywordInput, isExtractingKeywords>>

\* triggerXylaAnalysis and handleChatSend after the await
ChatDone(i, ok, response) ==
    /\ i \in 1..Len(calls)
    /\ calls[i].kind = "chat"
    /\ LET reply == GenerateChatReply(ok, response)
       IN  /\ \E t \in Times :
                /\ chatMessages' = Append(chatMessages,
                       Message("model", OrIfNullish(reply, calls[i].fallback), t))
                /\ now' = t
           /\ did' = [Quiet EXCEPT !.op = "chat", !.s = i, !.ok = ok,
                                   !.result = reply]
    /\ isChatLoading' = FALSE
    /\ calls' = Settled(i)
    /\ UNCHANGED <<supported, view, records, storage, editingRecord,
                   suggestedKeywords, chatInput, inputTextRef,
                   fullTranscriptRef, isListening, isListeningRef,
                   isInlineListening, inlineTargetRef, initialInlineTextRef,
                   isProcessing, recognitionRef, notice, sess, nextSess,
                   nEvents, keywordInput, isExtractingKeywords, nCalls>>

(* --------------------------- record store ----------------------------- *)
\* variant of FinalRecord: the draft as it is, no field filled in
FinalRecordAsIs(d, chat, t) == [chatHistory |-> chat] @@ d

\* finalRecord of saveCurrentRecord; t is Date.now()
FinalRecord(d, chat, t) ==
    [id |-> OrElse(d, "id", "", ToString(t)),
     timestamp |-> OrElse(d, "timestamp", 0, t),
     type |-> OrElse(d, "type", "", "NOTE"),
     content |-> OrElse(d, "content", <<>>, <<>>),
     topic |-> OrElse(d, "topic", <<>>,
                      IF OrElse(d, "content", <<>>, <<>>) # <<>>
                      THEN Slice0(d.content, SaveTopicLen) ELSE Untitled),
     keywords |-> ArrayOrElse(d, "keywords", <<>>),
     category |-> OrElse(d, "category", "", LifeCategory),
     chatHistory |-> chat] @@ d

\* records.findIndex(r => r.id === id), 0 when there is none
FindIndex(rs, id) ==
    IF \E i \in 1..Len(rs) : rs[i].id = id
    THEN CHOOSE i \in 1..Len(rs) :
            rs[i].id = id /\ \A j \in 1..(i - 1) : rs[j].id # id
    ELSE 0

\* variant of Merged: the record is always added at the end
MergedAppended(rs, r) == Append(rs, r)

\* newRecords of saveCurrentRecord
Merged(rs, r) ==
    LET existingIndex == FindIndex(rs, r.id)
    IN  IF existingIndex > 0 THEN [rs EXCEPT ![existingIndex] = r]
        ELSE Append(rs, r)

\* saveCurrentRecord; localStorage.setItem succeeds or throws, and what it
\* throws leaves saveRecordsToStorage and the handler
SaveCurrentRecord(writeOk) ==
    /\ EditMounted /\ CanPress
    /\ \E t \in Times :
         LET finalRecord == FinalRecord(editingRecord[1], chatMessages, t)
             newRecords == Merged(records, finalRecord)
         IN  /\ now' = IF OrElse(editingRecord[1], "id", "", "") = ""
                          \/ OrElse(editingRecord[1], "timestamp", 0, 0) = 0
                       THEN t ELSE now
             /\ records' = newRecords
             /\ did' = [Quiet EXCEPT !.op = "save", !.ok = writeOk,
                                     !.s = FindIndex(records, finalRecord.id),
                                     !.threw = ~writeOk]
             /\ IF writeOk
                THEN /\ storage' = newRecords
                     /\ editingRecord' = NoDraft
                     /\ inputTextRef' = <<>>
                     /\ fullTranscriptRef' = <<>>
                     /\ view' = "HOME"
                ELSE UNCHANGED <<storage, editingRecord, inputTextRef,
                                 fullTranscriptRef, view>>
    /\ UNCHANGED <<supported, isChatLoading, suggestedKeywords, chatMessages, chatInput,
                   isListening, isListeningRef, isInlineListening,
                   inlineTargetRef, initialInlineTextRef, isProcessing,
                   recognitionRef, notice, sess, nextSess, nEvents,
                   keywordInput, isExtractingKeywords,
                   calls, nCalls>>

\* records.filter(r => r.id !== id)
Without(rs, id) == SelectSeq(rs, LAMBDA r : r.id # id)

\* handleDeleteRecord; window.confirm answers, localStorage.setItem succeeds or throws
HandleDeleteRecord(confirmed, writeOk) ==
    /\ EditMounted /\ CanPress
    /\ IF OrElse(editingRecord[1], "id", "", "") = ""
       THEN /\ editingRecord' = NoDraft
            /\ view' = "HOME"
            /\ UNCHANGED <<records, storage>>
       ELSE IF confirmed
       THEN /\ records' = Without(records, editingRecord[1].id)
            /\ IF writeOk
               THEN /\ storage' = records'
                    /\ editingRecord' = NoDraft
                    /\ view' = "HOME"
               ELSE UNCHANGED <<storage, editingRecord, view>>
       ELSE UNCHANGED <<records, storage, editingRecord, view>>
    /\ did' = [Quiet EXCEPT !.op = "delete", !.ok = confirmed,
                            !.threw = confirmed /\ ~writeOk
                                      /\ OrElse(editingRecord[1], "id", "", "") # ""]
    /\ UNCHANGED <<supported, isChatLoading, now, suggestedKeywords, chatMessages, chatInput,
                   inputTextRef, fullTranscriptRef, isListening, isListeningRef,
                   isInlineListening, inlineTargetRef, initialInlineTextRef,
                   isProcessing, recognitionRef, notice, sess, nextSess, nEvents,
                   keywordInput, isExtractingKeywords,
                   calls, nCalls>>

(* --------------------------- specification ---------------------------- *)
Next ==
    \/ StartListening
    \/ (isListeningRef /\ StopListeningAndProcess)
    \/ \E s \in Sessions : GraceTimer(s)
    \/ \E s \in Sessions : \E ok \in BOOLEAN : \E response \in Responses(sess[s].text) :
          ProofreadDone(s, ok, response)
    \/ \E target \in {"EDIT_CONTENT", "CHAT_INPUT"} : HandleInlineVoiceStart(target)
    \/ HandleInlineVoiceEnd
    \/ \E s \in Sessions : \E results \in Events : OnResult(s, results)
    \/ \E s \in Sessions : OnEnd(s)
    \/ HandlePenClick
    \/ \E value \in TypedTexts : EditContent(value)
    \/ \E value \in TypedTexts : EditChatInput(value)
    \/ \E writeOk \in BOOLEAN : SaveCurrentRecord(writeOk)
    \/ \E confirmed \in BOOLEAN : \E writeOk \in BOOLEAN :
          HandleDeleteRecord(confirmed, writeOk)
    \/ \E kw \in KeywordTexts : ToggleKeyword(kw)
    \/ \E value \in KeywordInputs : HandleAddKeyword(value)
    \/ HandleAutoKeywords
    \/ \E ok \in BOOLEAN : \E response \in ExtractedKeywords :
          AutoKeywordsDone(ok, response)
    \/ \E base64 \in Images : HandlePhoto(base64)
    \/ \E i \in 1..MaxCalls : PhotoLoaded(i)
    \/ \E t \in 0..MaxTime : EditTimestamp(t)
    \/ \E value \in TypedTexts : EditTitle(value)
    \/ \E i \in 1..MaxTime : HandleFeelingLucky(i)
    \/ ReanalyzeImage
    \/ ReanalyzeContent
    \/ \E text \in {<<>>} \cup TypedTexts : \E imageBase64 \in {""} \cup Images :
          AnalyzeCapture(text, imageBase64)
    \/ \E i \in 1..MaxCalls : \E ok \in BOOLEAN : \E response \in AnalysisResults :
          AnalyzeDone(i, ok, response)
    \/ TriggerXylaAnalysis
    \/ HandleChatSend
    \/ \E i \in 1..MaxCalls : \E ok \in BOOLEAN : \E response \in ChatReplies :
          ChatDone(i, ok, response)

Spec == Init /\ [][Next]_vars

\* no dictation session is under way: every session started so far has been
\* handled to the end and its recognizer has ended
NoneUnderWay == \A s \in Sessions : sess[s] \in {NoSession, Finished}

\* the press-to-talk channel on its own, one session after the other: the
\* mic is pressed again when nothing of the previous dictation is pending.
\* Events still arrive between stop() and the timer, and the save brings the
\* user back to the home view for the next dictation.
SoloNext ==
    \/ (NoneUnderWay /\ StartListening)
    \/ (isListeningRef /\ StopListeningAndProcess)
    \/ \E s \in Sessions : GraceTimer(s)
    \/ \E s \in Sessions : \E ok \in BOOLEAN : \E response \in Responses(sess[s].text) :
          ProofreadDone(s, ok, response)
    \/ \E s \in Sessions : \E results \in Events : OnResult(s, results)
    \/ \E s \in Sessions : OnEnd(s)
    \/ SaveCurrentRecord(TRUE)

SoloSpec == Init /\ [][SoloNext]_vars

\* the mic button on its own with every gesture it takes: presses when
\* nothing of the previous dictation is pending, and releases whether or not
\* a session is listening
GestureNext ==
    \/ (NoneUnderWay /\ StartListening)
    \/ StopListeningAndProcess
    \/ \E s \in Sessions : GraceTimer(s)
    \/ \E s \in Sessions : \E ok \in BOOLEAN : \E response \in Responses(sess[s].text) :
          ProofreadDone(s, ok, response)
    \/ \E s \in Sessions : \E results \in Events : OnResult(s, results)
    \/ \E s \in Sessions : OnEnd(s)

GestureSpec == Init /\ [][GestureNext]_vars

\* both dictation channels with the editing they write into, sessions
\* overlapping in every way the handlers allow, up to the first save
VoiceNext ==
    \/ StartListening
    \/ (isListeningRef /\ StopListeningAndProcess)
    \/ \E s \in Sessions : GraceTimer(s)
    \/ \E s \in Sessions : \E ok \in BOOLEAN : \E response \in Responses(sess[s].text) :
          ProofreadDone(s, ok, response)
    \/ \E s \in Sessions : \E results \in Events : OnResult(s, results)
    \/ \E s \in Sessions : OnEnd(s)
    \/ \E target \in {"EDIT_CONTENT", "CHAT_INPUT"} : HandleInlineVoiceStart(target)
    \/ HandleInlineVoiceEnd
    \/ HandlePenClick
    \/ \E value \in TypedTexts : EditContent(value)
    \/ \E value \in TypedTexts : EditChatInput(value)

VoiceSpec == Init /\ [][VoiceNext]_vars

\* the pen has been pressed at time 1 and "x" typed as the content
KeywordInit ==
    /\ supported \in BOOLEAN
    /\ now = 1
    /\ view = "EDIT_RECORD"
    /\ records = <<>>
    /\ storage = <<>>
    /\ editingRecord = <<Draft("1", 1, <<"x">>, <<>>)>>
    /\ suggestedKeywords = <<>>
    /\ chatMessages = <<>>
    /\ chatInput = <<>>
    /\ inputTextRef = <<>>
    /\ fullTranscriptRef = <<>>
    /\ isListening = FALSE
    /\ isListeningRef = FALSE
    /\ isInlineListening = FALSE
    /\ inlineTargetRef = "null"
    /\ initialInlineTextRef = <<>>
    /\ isProcessing = FALSE
    /\ recognitionRef = 0
    /\ notice = ""
    /\ sess = [s \in Sessions |-> NoSession]
    /\ nextSess = 1
    /\ nEvents = 0
    /\ keywordInput = <<>>
    /\ isExtractingKeywords = FALSE
    /\ isChatLoading = FALSE
    /\ calls = <<>>
    /\ nCalls = 0
    /\ did = Quiet

\* the keywords of one written draft: typed in, suggested by the keyword
\* extraction, accepted and removed
KeywordNext ==
    \/ \E kw \in KeywordTexts : ToggleKeyword(kw)
    \/ \E value \in KeywordInputs : HandleAddKeyword(value)
    \/ HandleAutoKeywords
    \/ \E ok \in BOOLEAN : \E response \in ExtractedKeywords :
          AutoKeywordsDone(ok, response)

KeywordSpec == KeywordInit /\ [][KeywordNext]_vars

\* a written or photographed draft under re-analysis, edited by keyboard
\* while the result is awaited
ReanalysisNext ==
    \/ HandlePenClick
    \/ \E base64 \in Images : HandlePhoto(base64)
    \/ \E i \in 1..MaxCalls : PhotoLoaded(i)
    \/ \E value \in TypedTexts : EditContent(value)
    \/ \E value \in {<<"a">>, <<"b">>} : HandleAddKeyword(value)
    \/ \E t \in 0..MaxTime : EditTimestamp(t)
    \/ ReanalyzeImage
    \/ ReanalyzeContent
    \/ \E i \in 1..MaxCalls : \E ok \in BOOLEAN : \E response \in AnalysisResults :
          AnalyzeDone(i, ok, response)

ReanalysisSpec == Init /\ [][ReanalysisNext]_vars

\* written notes saved, opened again, saved again and deleted
StoreNext ==
    \/ HandlePenClick
    \/ \E value \in TypedTexts : EditContent(value)
    \/ \E value \in TypedTexts : EditTitle(value)
    \/ \E i \in 1..MaxTime : HandleFeelingLucky(i)
    \/ \E writeOk \in BOOLEAN : SaveCurrentRecord(writeOk)
    \/ \E confirmed \in BOOLEAN : \E writeOk \in BOOLEAN :
          HandleDeleteRecord(confirmed, writeOk)

StoreSpec == Init /\ [][StoreNext]_vars

\* the Partial<RecordData> that has the fields of o that are set
PartialDraft(o) ==
    LET Field(f) == IF o[f] = <<>> THEN [x \in {} |-> 0] ELSE f :> o[f][1]
    IN  Field("id") @@ Field("timestamp") @@ Field("type") @@ Field("content")
        @@ Field("topic") @@ Field("keywords") @@ Field("category")

\* a draft of any shape is open in the edit view
FinalizeInit ==
    /\ supported \in BOOLEAN
    /\ now = 1
    /\ view = "EDIT_RECORD"
    /\ records = <<>>
    /\ storage = <<>>
    /\ \E o \in DraftFieldValues : editingRecord = <<PartialDraft(o)>>
    /\ suggestedKeywords = <<>>
    /\ chatMessages \in Transcripts
    /\ chatInput = <<>>
    /\ inputTextRef = <<>>
    /\ fullTranscriptRef = <<>>
    /\ isListening = FALSE
    /\ isListeningRef = FALSE
    /\ isInlineListening = FALSE
    /\ inlineTargetRef = "null"
    /\ initialInlineTextRef = <<>>
    /\ isProcessing = FALSE
    /\ recognitionRef = 0
    /\ notice = ""
    /\ sess = [s \in Sessions |-> NoSession]
    /\ nextSess = 1
    /\ nEvents = 0
    /\ keywordInput = <<>>
    /\ isExtractingKeywords = FALSE
    /\ isChatLoading = FALSE
    /\ calls = <<>>
    /\ nCalls = 0
    /\ did = Quiet

\* saveCurrentRecord applied to the draft
FinalizeNext == \E writeOk \in BOOLEAN : SaveCurrentRecord(writeOk)

FinalizeSpec == FinalizeInit /\ [][FinalizeNext]_vars

\* the draft is the first to be committed or is a record of the list
FirstOrListed ==
    /\ EditMounted
    /\ \/ records = <<>>
       \/ \E i \in 1..Len(records) :
             records[i].id = OrElse(editingRecord[1], "id", "", "")

\* the responses about a book or about nothing in particular; the media
\* metadata, when there are any, have a title
BookResults ==
    {r \in AnalysisResults :
        /\ r.detectedType \in {"BOOK", "OTHER"}
        /\ r.mediaMeta # <<>> => r.mediaMeta[1].title # <<>>}

\* one record from every way a draft comes into being (pen, photo, first
\* analysis) through re-analysis and commit to its being opened and
\* committed again
CaptureNext ==
    \/ HandlePenClick
    \/ \E base64 \in Images : HandlePhoto(base64)
    \/ \E i \in 1..MaxCalls : PhotoLoaded(i)
    \/ \E text \in {<<>>} \cup TypedTexts : \E imageBase64 \in {""} \cup Images :
          AnalyzeCapture(text, imageBase64)
    \/ \E i \in 1..MaxCalls : \E ok \in BOOLEAN : \E response \in BookResults :
          AnalyzeDone(i, ok, response)
    \/ ReanalyzeImage
    \/ ReanalyzeContent
    \/ \E i \in 1..MaxTime : HandleFeelingLucky(i)
    \/ (FirstOrListed /\ SaveCurrentRecord(TRUE))

CaptureSpec == Init /\ [][CaptureNext]_vars

\* first analyses of captured text and pictures
FirstAnalysisNext ==
    \/ \E text \in {<<>>} \cup TypedTexts : \E imageBase64 \in {""} \cup Images :
          AnalyzeCapture(text, imageBase64)
    \/ \E i \in 1..MaxCalls : \E ok \in BOOLEAN : \E response \in AnalysisResults :
          AnalyzeDone(i, ok, response)

FirstAnalysisSpec == Init /\ [][FirstAnalysisNext]_vars

\* result events of one final entry
FinalEvents == {e \in Events : Len(e) = 1 /\ e[1].isFinal}

\* results that are notes
NoteResults == {r \in BookResults : ~r.isMedia}

\* the two ways the processing loader is raised, a dictation and an analysis
\* of a text typed in the home view with the re-analysis of its draft, every
\* call failing or succeeding
ProcessingNext ==
    \/ (NoneUnderWay /\ StartListening)
    \/ (isListeningRef /\ StopListeningAndProcess)
    \/ \E s \in Sessions : GraceTimer(s)
    \/ \E s \in Sessions : \E ok \in BOOLEAN : \E response \in Responses(sess[s].text) :
          ProofreadDone(s, ok, response)
    \/ \E s \in Sessions : \E results \in FinalEvents : OnResult(s, results)
    \/ \E text \in TypedTexts : (HomeMounted /\ AnalyzeCapture(text, ""))
    \/ \E i \in 1..MaxCalls : \E ok \in BOOLEAN : \E response \in NoteResults :
          AnalyzeDone(i, ok, response)
    \/ ReanalyzeContent

\* a call that has been made returns or throws: analyzeInput and
\* proofreadText settle, and the handler that awaits them resumes
CallsReturn ==
    /\ WF_vars(\E i \in 1..MaxCalls : \E ok \in BOOLEAN : \E response \in NoteResults :
                  AnalyzeDone(i, ok, response))
    /\ WF_vars(\E s \in Sessions : \E ok \in BOOLEAN :
                  \E response \in Responses(sess[s].text) :
                     ProofreadDone(s, ok, response))

ProcessingSpec == Init /\ [][ProcessingNext]_vars /\ CallsReturn

\* the chat about one written draft
ChatNext ==
    \/ HandlePenClick
    \/ \E value \in TypedTexts : EditContent(value)
    \/ \E value \in TypedTexts : EditChatInput(value)
    \/ TriggerXylaAnalysis
    \/ HandleChatSend
    \/ \E i \in 1..MaxCalls : \E ok \in BOOLEAN : \E response \in ChatReplies :
          ChatDone(i, ok, response)

ChatSpec == Init /\ [][ChatNext]_vars

\* the assistant's comment on a draft that is committed and followed by
\* another draft or opened again
ChatStoreNext ==
    \/ HandlePenClick
    \/ \E value \in TypedTexts : EditContent(value)
    \/ TriggerXylaAnalysis
    \/ \E i \in 1..MaxCalls : \E ok \in BOOLEAN : \E response \in ChatReplies :
          ChatDone(i, ok, response)
    \/ (FirstOrListed /\ SaveCurrentRecord(TRUE))
    \/ \E i \in 1..MaxTime : HandleFeelingLucky(i)

ChatStoreSpec == Init /\ [][ChatStoreNext]_vars

(* ------------------------------ properties ---------------------------- *)
\* C1-C5, C9 and C10 are checked under VoiceSpec.  C6-C8 are checked under
\* SoloSpec, which stays small enough to be explored with larger bounds;
\* they hold under VoiceSpec with the bounds above as well.  C11, C12, C14
\* and C15 are checked under ReanalysisSpec, C13 under KeywordSpec, C16 under
\* FirstAnalysisSpec, C17 under CaptureSpec, C18 under FinalizeSpec, C19 to
\* C22 under StoreSpec, C23 under FirstAnalysisSpec, C24 and C28 under
\* ChatSpec, C25 under GestureSpec, C26 and C27 under VoiceSpec, C29 under
\* ChatStoreSpec, and C30 under ProcessingSpec, whose fairness condition says
\* that the calls made come back.
\* the text consists of white space only (the empty text included)
AllSpaces(t) == \A i \in 1..Len(t) : t[i] = " "

\* recognizers that run and have not been asked to stop
ActiveStreams == {s \in Sessions : sess[s].state = "active"}

\* the draft the last step left in the editor
TheDraft == editingRecord[1]

\* C1: the transcript an event emits to the result callback of its session is
\* all the final entries the session's recognizer has delivered so far
\* followed by the interim entries of that event only.
C1_EmittedIsFinalsThenLatestInterim ==
    did.op = "onresult" => did.text = did.own

\* C2: a primary session that had received non-blank interim text and no
\* final entry when it was stopped, and whose recognizer delivered nothing
\* more, has a non-blank transcript read when its grace delay expires (so a
\* proofread is issued and a draft made from it).
C2_InterimOnlySessionYieldsTranscript ==
    (did.op = "timer" /\ did.held /\ did.late = <<>>)
        => (~AllSpaces(did.text) /\ sess[did.s].proc = "proofread")

\* C3: in every reachable state at most one recognition stream is running.
C3_AtMostOneActiveStream == Cardinality(ActiveStreams) <= 1

\* C4: after a recognizer has ended on its own, without stop() and while the
\* UI held its session, the session is idle again: the listening flag of its
\* channel is false and, for an inline session, the inline target is cleared.
C4_AbruptEndReturnsToIdle ==
    (did.op = "onend" /\ did.abrupt)
        => IF sess[did.s].kind = "primary"
           THEN ~isListening /\ ~isListeningRef
           ELSE ~isInlineListening /\ inlineTargetRef = "null"

\* C5: on a platform without speech recognition the primary channel stays
\* idle: the listening flag is never set and no recognizer handle is held.
C5_NoCapabilityStaysIdle ==
    ~supported => (~isListening /\ ~isListeningRef /\ recognitionRef = 0)

\* C6: when the transcript read at the end of the grace delay is empty or
\* white space only, the step creates no draft, issues no proofread call,
\* does not raise the processing flag and does not change the view.
C6_BlankTranscriptNoEffect ==
    [][(did'.op = "timer" /\ AllSpaces(did'.text))
          => /\ editingRecord' = editingRecord
             /\ records' = records
             /\ isProcessing' = isProcessing
             /\ view' = view
             /\ sess'[did'.s].proc # "proofread"]_vars

\* C6 happens: the timer has read a transcript of white space and nothing
\* came of it
C6_Witness ==
    /\ did.op = "timer" /\ did.text # <<>> /\ AllSpaces(did.text)
    /\ editingRecord = NoDraft /\ ~isProcessing /\ view = "HOME"

\* C7: when the proofread call fails, the draft is still created and its
\* content is exactly the raw transcript that was read at the end of the
\* grace delay and handed to proofreading, white space included.
C7_FailedProofreadKeepsRawText ==
    (did.op = "proofread" /\ ~did.ok)
        => (editingRecord # NoDraft /\ TheDraft.content = did.text
            /\ view = "EDIT_RECORD")

\* C7 happens: a failed proofread left a draft holding a raw transcript that
\* trimming would have altered
C7_Witness ==
    /\ did.op = "proofread" /\ ~did.ok
    /\ editingRecord # NoDraft /\ TheDraft.content = did.text
    /\ Trim(did.text) # did.text

\* C8 as stated: the topic of the draft made from a dictation is the first
\* 10 characters of its content followed by the ellipsis marker, also for the
\* 10-character dictation with failed proofreading.
C8_TopicIsPrefixPlusEllipsis ==
    did.op = "proofread"
        => TheDraft.topic =
              SubSeq(TheDraft.content, 1,
                     IF Len(TheDraft.content) < VoiceTopicLen
                     THEN Len(TheDraft.content) ELSE VoiceTopicLen)
              \o Ellipsis

\* C8 amended: the topic of the draft made from a dictation is its content
\* when that has at most 10 characters, and otherwise the first 10 characters
\* of the content followed by the ellipsis marker.
C8_TopicEllipsisOnlyWhenTruncated ==
    did.op = "proofread"
        => IF Len(TheDraft.content) > VoiceTopicLen
           THEN /\ Len(TheDraft.topic) = VoiceTopicLen + Len(Ellipsis)
                /\ \A i \in 1..VoiceTopicLen : TheDraft.topic[i] = TheDraft.content[i]
                /\ \A i \in 1..Len(Ellipsis) :
                      TheDraft.topic[VoiceTopicLen + i] = Ellipsis[i]
           ELSE TheDraft.topic = TheDraft.content

\* C8 happens: the 10-character dictation with failed proofreading
C8_Witness ==
    /\ did.op = "proofread" /\ ~did.ok
    /\ editingRecord # NoDraft
    /\ TheDraft.content = Dictation /\ TheDraft.topic = Dictation

\* C9: when the recognizer delivered an event between stop() and the expiry
\* of the grace delay, the transcript read at expiry is the one that event
\* emitted.
C9_LateEventIsRead ==
    (did.op = "timer" /\ did.late # <<>>) => did.text = did.late[1]

\* C10: after every transcript an inline session emits, its target field is
\* the text the field held when the session started followed by the
\* effective transcript of the session.
C10_TargetIsPrefixPlusTranscript ==
    (did.op = "onresult" /\ sess[did.s].kind = "inline")
        => IF sess[did.s].target = "EDIT_CONTENT"
           THEN editingRecord # NoDraft
                /\ TheDraft.content = sess[did.s].prefix \o did.own
           ELSE chatInput = sess[did.s].prefix \o did.own

\* the keywords of the draft, [] without a draft
DraftKeywords == IF editingRecord = <<>> THEN <<>>
                 ELSE ArrayOrElse(editingRecord[1], "keywords", <<>>)

\* no keyword occurs twice in the list
NoDuplicate(q) == \A i, j \in 1..Len(q) : q[i] = q[j] => i = j

Merge == did'.op = "merge"

\* C11: a re-analysis only adds keywords: every keyword the draft holds when
\* the result is merged is still in the draft afterwards, whatever the result.
C11_ReanalysisKeepsKeywords ==
    [][(Merge /\ editingRecord # NoDraft)
       => Range(DraftKeywords) \subseteq Range(DraftKeywords')]_vars

\* C12: the draft never holds more than five keywords, and none twice.
C12_AtMostFiveDistinctKeywords ==
    Len(DraftKeywords) <= MaxKeywords /\ NoDuplicate(DraftKeywords)

\* the field f is absent from both drafts or has the same value in both
SameField(d, e, f) == (Has(d, f) <=> Has(e, f)) /\ (Has(d, f) => d[f] = e[f])

\* C14: the merge of a re-analysis keeps id, timestamp, original image and
\* chat history of the draft as they are immediately before the merge.
C14_MergeKeepsIdentityFields ==
    [][(Merge /\ editingRecord # NoDraft)
       => \A f \in {"id", "timestamp", "originalImage", "chatHistory"} :
             SameField(editingRecord[1], editingRecord'[1], f)]_vars

\* C15: a result dispatched for one draft is not applied when another draft,
\* or none, is the current one at completion: the step leaves it unchanged.
C15_ResultForOtherDraftIsDropped ==
    [][(/\ Merge
        /\ \/ editingRecord = NoDraft
           \/ editingRecord[1].id # calls[did'.s].editingRecord[1].id)
       => editingRecord' = editingRecord]_vars

\* the step is a commit of the draft, a deletion of the draft
Commit == did'.op = "save"
Deletion == did'.op = "delete"

\* positions of the list that hold a record with this id
Holding(rs, id) == {i \in 1..Len(rs) : rs[i].id = id}

\* C19: deleting a draft of which no record is persisted discards it without
\* asking; deleting a persisted one removes it only after the confirmation,
\* and a declined confirmation leaves draft, list and storage as they were.
C19_UnsavedDraftDiscardedWithoutAsking ==
    [][Deletion =>
         IF Holding(storage, editingRecord[1].id) = {}
         THEN editingRecord' = NoDraft /\ records' = records /\ storage' = storage
         ELSE IF did'.ok
         THEN Holding(records', editingRecord[1].id) = {}
         ELSE UNCHANGED <<editingRecord, records, storage>>]_vars

\* C20: a commit whose id is in the list replaces the record at that index,
\* the length and every other entry unchanged; a commit with a new id adds
\* the record at the end, the length growing by one.
C20_CommitReplacesOrAppends ==
    [][Commit =>
         LET id == editingRecord[1].id
             at == Holding(records, id)
         IN  IF at # {}
             THEN /\ Len(records') = Len(records)
                  /\ \E i \in at :
                       /\ records'[i].id = id
                       /\ records'[i].content = editingRecord[1].content
                       /\ \A j \in 1..Len(records) : j # i => records'[j] = records[j]
             ELSE /\ Len(records') = Len(records) + 1
                  /\ SubSeq(records', 1, Len(records)) = records
                  /\ records'[Len(records')].id = id
                  /\ records'[Len(records')].content = editingRecord[1].content]_vars

\* a record that is not the only one of the list has been replaced in place
C20_Witness ==
    /\ did.op = "save" /\ did.s > 0
    /\ Len(records) >= 2
    /\ records[did.s].content = <<"x">>

\* the record a commit has written into the list
Committed == records'[IF did'.s > 0 THEN did'.s ELSE Len(records')]

\* q is the text made of the first n characters of text (all of it when shorter)
IsPrefixOfLength(q, text, n) ==
    /\ Len(q) = (IF Len(text) < n THEN Len(text) ELSE n)
    /\ \A i \in 1..Len(q) : q[i] = text[i]

\* C18: the record made from any draft has id, timestamp, kind, content,
\* topic, keywords and category; a missing topic is the first twelve
\* characters of the content, or the placeholder without content; a missing
\* category is the fixed label, missing keywords the empty list, a missing
\* kind Note; and the chat history is the current chat transcript.
C18_FinalizeFillsEveryField ==
    [][Commit =>
         LET d == editingRecord[1]
             r == Committed
         IN  /\ \A f \in {"id", "timestamp", "type", "content", "topic",
                          "keywords", "category"} : Has(r, f)
             /\ r.id # "" /\ r.timestamp # 0
             /\ ~Has(d, "topic") =>
                   IF Has(d, "content") /\ d.content # <<>>
                   THEN IsPrefixOfLength(r.topic, d.content, SaveTopicLen)
                   ELSE r.topic = Untitled
             /\ ~Has(d, "category") => r.category = LifeCategory
             /\ ~Has(d, "keywords") => r.keywords = <<>>
             /\ ~Has(d, "type") => r.type = "NOTE"
             /\ r.chatHistory = chatMessages]_vars

\* a draft without topic, category and kind and with a long content has
\* been committed with a chat transcript
C18_Witness ==
    /\ did.op = "save"
    /\ \E i \in 1..Len(records) :
         /\ Len(records[i].content) > SaveTopicLen
         /\ Len(records[i].topic) = SaveTopicLen
         /\ records[i].category = LifeCategory
         /\ records[i].type = "NOTE"
         /\ records[i].chatHistory # <<>>

\* the seed label of a media kind
SeedLabel(kind) ==
    CASE kind = "BOOK" -> SeedBook
      [] kind = "MOVIE" -> SeedMovie
      [] kind = "MUSIC" -> SeedMusic

\* C16: a first analysis whose result is a media result of kind Book, Movie
\* or Music with a media title T produces a draft of that kind whose media
\* metadata carry the title T and whose keywords contain the kind's seed label.
C16_MediaResultMakesMediaDraft ==
    [][(/\ did'.op = "initial"
        /\ did'.result[1].isMedia
        /\ did'.result[1].detectedType \in {"BOOK", "MOVIE", "MUSIC"}
        /\ did'.result[1].mediaMeta # <<>>
        /\ did'.result[1].mediaMeta[1].title # <<>>)
       => /\ editingRecord' # NoDraft
          /\ editingRecord'[1].type = did'.result[1].detectedType
          /\ Has(editingRecord'[1], "mediaMeta")
          /\ editingRecord'[1].mediaMeta.title = did'.result[1].mediaMeta[1].title
          /\ SeedLabel(did'.result[1].detectedType)
               \in Range(editingRecord'[1].keywords)]_vars

\* a first analysis has answered with a movie and its title
C16_Witness ==
    /\ did.op = "initial" /\ did.ok
    /\ did.result[1].isMedia
    /\ did.result[1].detectedType = "MOVIE"
    /\ did.result[1].mediaMeta # <<>>
    /\ did.result[1].mediaMeta[1].title = <<"T">>
    /\ editingRecord # NoDraft
    /\ editingRecord[1].type = "MOVIE"

\* the record has media metadata or is a note, and not both
MediaOrNote(r) == Has(r, "mediaMeta") # (r.type = "NOTE")

\* C17: every saved record has media metadata or is of kind Note, never
\* both and never neither, whatever the capture path and the analysis result.
\* Checked under CaptureSpec; the dictated drafts of SoloSpec and the edited
\* titles of StoreSpec satisfy it as well.
C17_SavedRecordIsMediaOrNote ==
    \A i \in 1..Len(records) : MediaOrNote(records[i])

\* a record with media metadata has been committed
C17_Witness ==
    /\ did.op = "save"
    /\ \E i \in 1..Len(records) :
         /\ Has(records[i], "mediaMeta")
         /\ records[i].type \in {"BOOK", "MOVIE", "MUSIC", "OTHER"}

\* the step is the completion of a chat call
ChatCompletion == did'.op = "chat"

\* chat calls that have not returned yet
ChatCallsOutstanding == {i \in 1..Len(calls) : calls[i].kind = "chat"}

\* C24: when a chat call fails, exactly one assistant message with the error
\* sentinel is appended to the chat transcript, no exception leaves the
\* handler, and the chat loading flag is cleared.
C24_FailedChatAppendsSentinel ==
    [][(ChatCompletion /\ ~did'.ok)
       => /\ Len(chatMessages') = Len(chatMessages) + 1
          /\ SubSeq(chatMessages', 1, Len(chatMessages)) = chatMessages
          /\ chatMessages'[Len(chatMessages')].role = "model"
          /\ chatMessages'[Len(chatMessages')].text = ChatError
          /\ ~did'.threw
          /\ ~isChatLoading']_vars

\* a chat call sent by the user has failed and the sentinel follows the
\* user's message
C24_Witness ==
    /\ did.op = "chat" /\ ~did.ok
    /\ Len(chatMessages) >= 2
    /\ chatMessages[Len(chatMessages) - 1].role = "user"
    /\ chatMessages[Len(chatMessages)].text = ChatError

\* C28: the chat loading flag is true exactly while a chat call is
\* outstanding, whichever of the two triggers issued it.
C28_LoadingIffChatOutstanding ==
    isChatLoading <=> ChatCallsOutstanding # {}

\* C29: a chat reply requested for one draft is not appended to the chat
\* transcript when another draft, or none, is open at its arrival.
C29_ReplyForOtherDraftIsDropped ==
    [][(/\ ChatCompletion
        /\ \/ editingRecord = NoDraft
           \/ editingRecord[1].id # calls[did'.s].editingRecord[1].id)
       => chatMessages' = chatMessages]_vars

\* C22: when the storage write of a commit fails, the persisted list is the
\* one from before the commit, the failure is reported and no exception
\* leaves the handler uncaught, and the list in memory keeps the committed
\* record.
C22_FailedWriteIsReported ==
    [][(Commit /\ ~did'.ok)
       => /\ storage' = storage
          /\ ~did'.threw
          /\ notice' # notice
          /\ Holding(records', editingRecord[1].id) # {}]_vars

\* a gesture that opens a new draft: the edit view is entered with a draft
\* that is not a record opened from the list
CaptureGesture ==
    /\ view # "EDIT_RECORD" /\ view' = "EDIT_RECORD"
    /\ editingRecord' # NoDraft
    /\ \A i \in 1..Len(records) : records[i] # editingRecord'[1]

\* no id occurs at two positions of the list
UniqueIds(rs) == \A i, j \in 1..Len(rs) : rs[i].id = rs[j].id => i = j

\* C21: no two records of the persisted list share an id, and a draft created
\* by a capture gesture never gets the id of a record that an earlier gesture
\* has committed, so that committing it cannot take that record's position.
C21_CapturedDraftsHaveFreshIds ==
    [][/\ UniqueIds(storage')
       /\ CaptureGesture => Holding(records, editingRecord'[1].id) = {}]_vars

\* the handler has resumed with what analyzeInput returned
AnalysisCompletion == did'.op \in {"initial", "merge"}

\* C23: when the analysis call fails, analyzeInput returns, without throwing,
\* a result that is not media, whose content is the text given, or the
\* placeholder when that text is empty, with the failure topic, the error
\* keyword as only keyword and the category "other"; the result is a
\* function of the text alone.
C23_FailedAnalysisReturnsFallback ==
    [][(AnalysisCompletion /\ ~did'.ok)
       => LET text == calls[did'.s].text
              result == did'.result[1]
          IN  /\ ~did'.threw
              /\ ~result.isMedia
              /\ result.noteData.content = (IF text = <<>> THEN FailedContent ELSE text)
              /\ result.noteData.content # <<>>
              /\ result.noteData.topic = FailedTopic
              /\ Len(result.noteData.keywords) = 1
              /\ result.noteData.keywords[1] = FailedKeyword
              /\ result.noteData.category = OtherCategory
              /\ suggestedKeywords' = <<FailedKeyword>>]_vars

\* the analysis of a picture without text has failed
C23_Witness ==
    /\ did.op = "initial" /\ ~did.ok
    /\ did.result[1].noteData.content = FailedContent
    /\ editingRecord # NoDraft /\ Has(editingRecord[1], "originalImage")

\* C25: a stop gesture made while no session is listening changes nothing,
\* and however many stop gestures a press-to-talk session gets, one timer
\* at most is set for it, hence one read of the transcript, one proofread
\* call and one draft.
C25_OneReleasePerSession ==
    [][/\ ~isListeningRef
          => /\ \A s \in Sessions : sess'[s].stops <= sess[s].stops
             /\ isListeningRef' \/ recognitionRef' = recognitionRef
       /\ \A s \in Sessions : sess'[s].stops <= 1]_vars

\* a stop gesture has been made on a session released before
C25_Witness ==
    /\ did.op = "stop"
    /\ \E s \in Sessions : sess[s].stops = 1 /\ sess[s].proc \in {"grace", "proofread"}

\* onresult of the recognizer of a session after which another session has
\* been started
StaleEvent == did'.op = "onresult" /\ did'.s + 1 < nextSess

\* C26: the accumulator is empty when a session starts, and an event of the
\* recognizer of an earlier session is neither appended to the accumulator
\* nor emitted as transcript of the current session.
C26_EarlierRecognizerIsIgnored ==
    [][/\ nextSess' # nextSess => inputTextRef' = <<>>
       /\ StaleEvent => UNCHANGED <<inputTextRef, fullTranscriptRef,
                                    editingRecord, chatInput>>]_vars

\* a step of the release of a press-to-talk session after which another
\* press-to-talk session has been started
Overlapped(op) ==
    /\ did'.op = op
    /\ \E r \in Sessions : r > did'.s /\ sess[r].kind = "primary"

\* C27: when press-to-talk sessions overlap, the timer of a session that has
\* a non-blank transcript of its own reads that transcript, a timer that
\* reads a non-blank text reads the one of its own session, and the end of
\* the proofreading of a session leaves the transcript of a later session
\* that is still listening as it is.
C27_OverlappingSessionsKeepTheirText ==
    [][/\ (Overlapped("timer") /\ ~IsBlank(did'.own)) => did'.text = did'.own
       /\ (Overlapped("timer") /\ ~IsBlank(did'.text)) => did'.text = did'.own
       /\ (Overlapped("proofread") /\ \E r \in Sessions : r > did'.s /\ Listening(r))
             => fullTranscriptRef' = fullTranscriptRef]_vars

\* C30: whenever the processing flag is raised, by an analysis or by the
\* proofreading of a dictation, it is lowered again once the call is back,
\* whether the call has succeeded or failed.
C30_ProcessingIsLowered == isProcessing ~> ~isProcessing

\* a failed call is back and the flag is down
C30_Witness ==
    /\ did.op \in {"proofread", "initial", "merge"}
    /\ ~did.ok
    /\ ~isProcessing
====
